---- MODULE Spec2Model ----
(***************************************************************************)
(* SatyaMart: the role/approval workflow, the row-level-security policies  *)
(* of supabase/create_tables.sql and the client handlers that issue the    *)
(* requests (useAuth.signUp, Suppliers/Approvals approve and reject,       *)
(* Products.ensureSupplierRecord, Orders status updates).                  *)
(*                                                                         *)
(* Every request to the database is one atomic step; a handler yields at   *)
(* each await, so the steps of handlers running in different browser       *)
(* sessions interleave.  A policy is read as the row predicate its SQL     *)
(* text states, evaluated with the caller's auth.uid().                    *)
(***************************************************************************)
EXTENDS Integers, FiniteSets, Sequences, TLC

\* ------------------------------------------------------------------ bounds
\* accounts the authentication service can hold (auth.users rows)
MaxAccounts == 2

\* orders placed
MaxOrders == 2

\* rows of products at which the Add Product dialog is no longer opened
MaxProducts == 2

\* ------------------------------------------------------------- value sets
\* browser sessions (one supabase client each)
Clients == {"c1", "c2"}

\* `null` for a user reference (User | null)
NoUser == 0

Accounts == 1..MaxAccounts

\* SQL NULL / JS undefined for a text column
NullText == "NULL"

Roles == {"supplier", "vendor", "superadmin"}

ApprovalStatuses == {"pending", "approved", "rejected"}

\* the address compared against in signUp
BootstrapEmail == "fieronrhys@gmail.com"

\* e-mail addresses typed into the sign-up form
Emails == {"fieronrhys@gmail.com", "FieronRhys@Gmail.com", "asha@shop.in"}

\* String.prototype.toLowerCase on the addresses of Emails
toLowerCase(e) == IF e = "FieronRhys@Gmail.com" THEN "fieronrhys@gmail.com" ELSE e

\* business names typed into the form (an empty form field arrives as NULL)
BusinessNames == {"Acme", NullText}

\* userData handed to signUp: the requested role and the profile payload
UserDataSet ==
    {[role |-> "supplier", business_name |-> n, contact_number |-> "98450",
      business_address |-> "12 Mill Rd", company_name |-> NullText] : n \in BusinessNames}
    \cup {[role |-> "vendor", business_name |-> NullText, contact_number |-> "98450",
           business_address |-> NullText, company_name |-> "Asha Stores"],
          [role |-> "superadmin", business_name |-> NullText, contact_number |-> NullText,
           business_address |-> NullText, company_name |-> NullText]}

\* ------------------------------------------------------------------ state
VARIABLES
    users,              \* auth.users: the account ids that exist
    session,            \* per client: the signed-in user (user / session.user) or NoUser
    user_roles,         \* table user_roles
    supplier_profiles,  \* table supplier_profiles
    vendor_profiles,    \* table vendor_profiles
    suppliers,          \* table suppliers
    products,           \* table products
    orders,             \* table orders
    userRole,           \* per client: useAuth's userRole, a user_roles row or null ({})
    ordersList,         \* per client: the Orders page's `orders` state
    productsList,       \* per client: the Products page's `products` state
    pendingSuppliers,   \* per client: the Approvals page's `pendingSuppliers` state
    userDataFetch,      \* per client: the answer a fetchUserData call is waiting for, or {}
    proc                \* per client: the running handler, its position and locals

\* the accounts, their roles, profiles and business records
accountTables == <<users, user_roles, supplier_profiles, vendor_profiles, suppliers>>

\* the catalogue, the orders and the pages' copies of them
shop == <<products, orders, userRole, ordersList>>

\* the Products and Approvals pages' lists and useAuth's read in flight
pages == <<productsList, pendingSuppliers, userDataFetch>>

vars == <<users, session, user_roles, supplier_profiles, vendor_profiles, suppliers,
          shop, pages, proc>>

Idle == [pc |-> "idle"]

\* ------------------------------------------------- policies and constraints
\* the privilege taken from the role a session of the caller has loaded, not
\* from the table
IsSuperadminCachedRole(uid) ==
    \E c \in Clients : session[c] = uid /\ \E r \in userRole[c] : r.role = "superadmin"

\* exists (select 1 from user_roles ur where ur.user_id = auth.uid() and ur.role = 'superadmin')
IsSuperadmin(uid) ==
    \E ur \in user_roles : ur.user_id = uid /\ ur.role = "superadmin"

\* "Users can view their own role" OR "Superadmins can view all roles"
UserRolesSelectPolicy(uid, row) == uid = row.user_id \/ IsSuperadmin(uid)

\* "Users can insert their own role"
UserRolesInsertCheck(uid, row) == uid = row.user_id

\* the constraints without the unique index on user_id
UserRolesConstraintsNoUnique(row) ==
    /\ row.user_id \in users
    /\ row.role \in Roles
    /\ row.approval_status \in ApprovalStatuses

\* user_id ... unique not null, references auth.users(id); the two check constraints
UserRolesConstraints(row) ==
    /\ row.user_id \in users
    /\ \A r \in user_roles : r.user_id # row.user_id
    /\ row.role \in Roles
    /\ row.approval_status \in ApprovalStatuses

\* the error of insert into user_roles, "none" when the row is accepted
UserRolesInsertError(uid, row) ==
    IF ~UserRolesInsertCheck(uid, row) THEN "policy"
    ELSE IF ~UserRolesConstraints(row) THEN "constraint"
    ELSE "none"

\* id uuid primary key default gen_random_uuid(): an id no row of the table has
\* (rows are never deleted); written <<user_id, k>> for the k-th row of that user
NewId(table, user_id) == <<user_id, Cardinality({r \in table : r.user_id = user_id})>>

\* a policy that also lets an account update its own row
UserRolesUpdatePolicyOwnRow(uid, row) == uid = row.user_id \/ IsSuperadmin(uid)

\* "Superadmins can update all roles" (for update using ...)
UserRolesUpdatePolicy(uid, row) == IsSuperadmin(uid)

\* the rows update user_roles ... where user_id = target touches for this caller:
\* a row the policies hide from the caller is skipped, without an error
UserRolesUpdatable(uid, target) ==
    {r \in user_roles : /\ r.user_id = target
                        /\ UserRolesUpdatePolicy(uid, r)
                        /\ UserRolesSelectPolicy(uid, r)}

\* an update that removes the rows it rejects instead of marking them
UserRolesUpdateDeleting(uid, target, status) ==
    LET rows == UserRolesUpdatable(uid, target)
    IN IF status = "rejected" THEN user_roles \ rows
       ELSE (user_roles \ rows) \cup {[r EXCEPT !.approval_status = status] : r \in rows}

\* update user_roles set approval_status = status where user_id = target
UserRolesUpdate(uid, target, status) ==
    LET rows == UserRolesUpdatable(uid, target)
    IN (user_roles \ rows) \cup {[r EXCEPT !.approval_status = status] : r \in rows}

\* the error of that update: the new value must satisfy the check constraint
UserRolesUpdateError(uid, target, status) ==
    IF UserRolesUpdatable(uid, target) # {} /\ status \notin ApprovalStatuses
    THEN "constraint" ELSE "none"

\* "Users can view their own supplier profile", as replaced by the migration:
\* auth.uid() = user_id OR the caller is a superadmin
SupplierProfilesSelectPolicy(uid, row) == uid = row.user_id \/ IsSuperadmin(uid)

\* "Users can insert their own supplier profile"
SupplierProfilesInsertCheck(uid, row) == uid = row.user_id

\* supplier_profiles.user_id ... unique not null, references auth.users(id)
SupplierProfilesConstraints(row) ==
    /\ row.user_id \in users
    /\ \A r \in supplier_profiles : r.user_id # row.user_id

\* "Users can insert their own vendor profile"
VendorProfilesInsertCheck(uid, row) == uid = row.user_id

\* vendor_profiles.user_id ... unique not null, references auth.users(id)
VendorProfilesConstraints(row) ==
    /\ row.user_id \in users
    /\ \A r \in vendor_profiles : r.user_id # row.user_id

\* "Anyone can view suppliers"
SuppliersSelectPolicy(uid, row) == TRUE

\* "Users can insert their own supplier record"
SuppliersInsertCheck(uid, row) == uid = row.user_id

\* the constraints without the unique index on user_id
SuppliersConstraintsNoUnique(row) ==
    /\ row.user_id \in users
    /\ row.name # NullText

\* suppliers.user_id ... unique not null, references auth.users(id); name text not null
SuppliersConstraints(row) ==
    /\ row.user_id \in users
    /\ \A r \in suppliers : r.user_id # row.user_id
    /\ row.name # NullText

\* the error of insert into suppliers, "none" when the row is accepted
SuppliersInsertError(uid, row) ==
    IF ~SuppliersInsertCheck(uid, row) THEN "policy"
    ELSE IF ~SuppliersConstraints(row) THEN "constraint"
    ELSE "none"

\* create_supplier_for_user(): the suppliers row the trigger inserts for a new
\* supplier_profiles row; address is not set, status takes its default 'active'
create_supplier_for_user(new) ==
    [id |-> NewId(suppliers, new.user_id), user_id |-> new.user_id, name |-> new.business_name,
     contact_email |-> new.contact_number, address |-> NullText, status |-> "active"]

\* the error of insert into supplier_profiles: the policy, the constraints, then
\* create_supplier_trigger, whose failure fails the whole statement
SupplierProfilesInsertError(uid, row) ==
    IF ~SupplierProfilesInsertCheck(uid, row) THEN "policy"
    ELSE IF ~SupplierProfilesConstraints(row) THEN "constraint"
    ELSE SuppliersInsertError(uid, create_supplier_for_user(row))

\* the error of insert into vendor_profiles
VendorProfilesInsertError(uid, row) ==
    IF ~VendorProfilesInsertCheck(uid, row) THEN "policy"
    ELSE IF ~VendorProfilesConstraints(row) THEN "constraint"
    ELSE "none"

\* ------------------------------------------------------------------- Init
Init ==
    /\ users = {}
    /\ session = [c \in Clients |-> NoUser]
    /\ user_roles = {}
    /\ supplier_profiles = {}
    /\ vendor_profiles = {}
    /\ suppliers = {}
    /\ products = {}
    /\ orders = {}
    /\ userRole = [c \in Clients |-> {}]
    /\ ordersList = [c \in Clients |-> {}]
    /\ productsList = [c \in Clients |-> {}]
    /\ pendingSuppliers = [c \in Clients |-> {}]
    /\ userDataFetch = [c \in Clients |-> {}]
    /\ proc = [c \in Clients |-> Idle]

\* ------------------------------------------------------------ useAuth
\* signIn: the authentication service accepts the credentials of an account
SignIn(c) ==
    /\ proc[c] = Idle
    /\ \E u \in users :
        /\ session[c] # u
        /\ session' = [session EXCEPT ![c] = u]
    /\ UNCHANGED <<users, user_roles, supplier_profiles, vendor_profiles, suppliers, proc, shop, pages>>

\* signOut: the session ends; user and session are set to null
SignOut(c) ==
    /\ proc[c] = Idle
    /\ session[c] # NoUser
    /\ session' = [session EXCEPT ![c] = NoUser]
    /\ userRole' = [userRole EXCEPT ![c] = {}]
    /\ UNCHANGED <<accountTables, proc, products, orders, ordersList, pages>>

\* line 128: email.toLowerCase() === 'fieronrhys@gmail.com'
IsHardcodedSuperadmin(email) == toLowerCase(email) = BootstrapEmail

\* the requested role taken as it is
FinalRoleAsRequested(isHardcodedSuperadmin, userData) == userData.role

\* line 147: isHardcodedSuperadmin ? 'superadmin' : userData.role
FinalRole(isHardcodedSuperadmin, userData) ==
    IF isHardcodedSuperadmin THEN "superadmin" ELSE userData.role

\* every role but the bootstrap superadmin starts pending
SignUpApprovalStatusAllPending(finalRole, isHardcodedSuperadmin) ==
    IF ~isHardcodedSuperadmin THEN "pending" ELSE "approved"

\* line 152: (finalRole === 'supplier' && !isHardcodedSuperadmin) ? 'pending' : 'approved'
SignUpApprovalStatus(finalRole, isHardcodedSuperadmin) ==
    IF finalRole = "supplier" /\ ~isHardcodedSuperadmin THEN "pending" ELSE "approved"

\* .single(): data is the row when the query yields exactly one, null otherwise
Single(rows) == IF Cardinality(rows) = 1 THEN rows ELSE {}

\* from('user_roles').select('*').eq('user_id', id).single(): the rows the caller may see
SelectUserRole(uid, id) ==
    Single({r \in user_roles : r.user_id = id /\ UserRolesSelectPolicy(uid, r)})

\* signUp's locals at one of its awaits; error is what it is about to return
\* (lines 134, 190), "none" for error: null
SignUpAt(pc, email, userData, user, error) ==
    [pc |-> pc, email |-> email, userData |-> userData, user |-> user, error |-> error]

\* signUp, lines 125-135: the check for an existing role, read with userData.id
SignUpStart(c) ==
    /\ proc[c] = Idle
    /\ \E email \in Emails, userData \in UserDataSet, id \in users \cup {NoUser} :
        LET existingRole == SelectUserRole(session[c], id) IN
        IF existingRole # {}
        THEN proc' = [proc EXCEPT ![c] =
                SignUpAt("su_return", email, userData, NoUser, "User role already exists.")]
        ELSE proc' = [proc EXCEPT ![c] =
                SignUpAt("su_auth", email, userData, NoUser, "none")]
    /\ UNCHANGED <<users, session, user_roles, supplier_profiles, vendor_profiles, suppliers, shop, pages>>

\* after auth.signUp succeeded: getUser() is the client's signed-in user (lines 145-146)
SignUpAfterAuth(c, user) ==
    proc' = [proc EXCEPT ![c] =
        [@ EXCEPT !.pc = IF user = NoUser THEN "su_return" ELSE "su_role", !.user = user]]

\* signUp, lines 136-146 and 186-190: supabase.auth.signUp, whose answer the
\* authentication service decides, then getUser()
SignUpAuth(c) ==
    /\ proc[c].pc = "su_auth"
    /\ \/ \* the service refuses (address taken, weak password, ...)
          /\ proc' = [proc EXCEPT ![c] = [@ EXCEPT !.pc = "su_return", !.error = "auth"]]
          /\ UNCHANGED <<users, session>>
       \/ \* a new account, signed in at once
          /\ Cardinality(users) < MaxAccounts
          /\ LET a == Cardinality(users) + 1 IN
                /\ users' = users \cup {a}
                /\ session' = [session EXCEPT ![c] = a]
                /\ SignUpAfterAuth(c, a)
       \/ \* a new account that must confirm its address first: no session is opened
          /\ Cardinality(users) < MaxAccounts
          /\ users' = users \cup {Cardinality(users) + 1}
          /\ UNCHANGED session
          /\ SignUpAfterAuth(c, session[c])
       \/ \* an address already registered, answered without an error and without a session
          /\ users # {}
          /\ UNCHANGED <<users, session>>
          /\ SignUpAfterAuth(c, session[c])
    /\ UNCHANGED <<user_roles, supplier_profiles, vendor_profiles, suppliers, shop, pages>>

\* the user_roles row signUp builds (lines 147-153)
SignUpRoleRow(email, userData, user) ==
    LET isHardcodedSuperadmin == IsHardcodedSuperadmin(email)
        finalRole == FinalRole(isHardcodedSuperadmin, userData)
    IN [id |-> NewId(user_roles, user), user_id |-> user, role |-> finalRole,
        approval_status |-> SignUpApprovalStatus(finalRole, isHardcodedSuperadmin)]

\* signUp, lines 147-155 and 176: insert into user_roles; the answer is not looked at
SignUpInsertRole(c) ==
    /\ proc[c].pc = "su_role"
    /\ LET p == proc[c]
           row == SignUpRoleRow(p.email, p.userData, p.user)
       IN /\ user_roles' = IF UserRolesInsertError(session[c], row) = "none"
                           THEN user_roles \cup {row} ELSE user_roles
          /\ proc' = [proc EXCEPT ![c] =
                [p EXCEPT !.pc = IF row.role = "supplier" THEN "su_supplier_profile"
                                 ELSE IF row.role = "vendor" THEN "su_vendor_profile"
                                 ELSE "su_return"]]
    /\ UNCHANGED <<users, session, supplier_profiles, vendor_profiles, suppliers, shop, pages>>

\* signUp, lines 155-166: insert into supplier_profiles (the trigger adds the
\* suppliers row in the same statement); the answer is not looked at
SignUpInsertSupplierProfile(c) ==
    /\ proc[c].pc = "su_supplier_profile"
    /\ LET p == proc[c]
           row == [id |-> NewId(supplier_profiles, p.user), user_id |-> p.user,
                   business_name |-> p.userData.business_name,
                   contact_number |-> p.userData.contact_number,
                   business_address |-> p.userData.business_address]
           ok == SupplierProfilesInsertError(session[c], row) = "none"
       IN /\ supplier_profiles' = IF ok THEN supplier_profiles \cup {row}
                                  ELSE supplier_profiles
          /\ suppliers' = IF ok THEN suppliers \cup {create_supplier_for_user(row)}
                          ELSE suppliers
          /\ proc' = [proc EXCEPT ![c] = [p EXCEPT !.pc = "su_supplier"]]
    /\ UNCHANGED <<users, session, user_roles, vendor_profiles, shop, pages>>

\* signUp, lines 168-175: insert into suppliers; the answer is not looked at
SignUpInsertSupplier(c) ==
    /\ proc[c].pc = "su_supplier"
    /\ LET p == proc[c]
           row == [id |-> NewId(suppliers, p.user), user_id |-> p.user,
                   name |-> p.userData.business_name,
                   contact_email |-> p.userData.contact_number,
                   address |-> p.userData.business_address, status |-> "active"]
       IN suppliers' = IF SuppliersInsertError(session[c], row) = "none"
                       THEN suppliers \cup {row} ELSE suppliers
    /\ proc' = [proc EXCEPT ![c] = [@ EXCEPT !.pc = "su_return"]]
    /\ UNCHANGED <<users, session, user_roles, supplier_profiles, vendor_profiles, shop, pages>>

\* signUp, lines 176-184: insert into vendor_profiles; the answer is not looked at
SignUpInsertVendorProfile(c) ==
    /\ proc[c].pc = "su_vendor_profile"
    /\ LET p == proc[c]
           row == [id |-> NewId(vendor_profiles, p.user), user_id |-> p.user,
                   company_name |-> p.userData.company_name,
                   contact_number |-> p.userData.contact_number]
       IN vendor_profiles' = IF VendorProfilesInsertError(session[c], row) = "none"
                             THEN vendor_profiles \cup {row} ELSE vendor_profiles
    /\ proc' = [proc EXCEPT ![c] = [@ EXCEPT !.pc = "su_return"]]
    /\ UNCHANGED <<users, session, user_roles, supplier_profiles, suppliers, shop, pages>>

\* signUp, lines 189-190 (and 133-134): setLoading(false); return { error }
SignUpDone(c) ==
    /\ proc[c].pc = "su_return"
    /\ proc' = [proc EXCEPT ![c] = Idle]
    /\ UNCHANGED <<users, session, user_roles, supplier_profiles, vendor_profiles, suppliers, shop, pages>>

\* --------------------------------------------------- Suppliers / Approvals
\* handleApproveSupplier / handleRejectSupplier up to the answer of the update
\* (Suppliers.tsx lines 96-103 and 120-127); any signed-in or anonymous caller
UpdateApproval(c, op, status) ==
    /\ proc[c] = Idle
    /\ \E target \in users :
        LET error == UserRolesUpdateError(session[c], target, status) IN
        /\ user_roles' = IF error = "none"
                         THEN UserRolesUpdate(session[c], target, status)
                         ELSE user_roles
        /\ proc' = [proc EXCEPT ![c] =
                [pc |-> "toast", op |-> op, target |-> target, error |-> error]]
    /\ UNCHANGED <<users, session, supplier_profiles, vendor_profiles, suppliers, shop, pages>>

handleApproveSupplier(c) == UpdateApproval(c, "approve", "approved")

handleRejectSupplier(c) == UpdateApproval(c, "reject", "rejected")

\* the toast the handler shows for the answer (Suppliers.tsx lines 103-116, 127-140)
ToastTitle(op, error) ==
    IF error # "none" THEN "Error"
    ELSE IF op = "approve" THEN "Supplier Approved" ELSE "Supplier Rejected"

\* the toast is shown and the handler ends
ShowToast(c) ==
    /\ proc[c].pc = "toast"
    /\ proc' = [proc EXCEPT ![c] = Idle]
    /\ UNCHANGED <<users, session, user_roles, supplier_profiles, vendor_profiles, suppliers, shop, pages>>

\* ------------------------------------------------- Products.ensureSupplierRecord
\* ensureSupplierRecord's locals at one of its awaits; supplierData and profileData
\* are a row or null (the empty set); caller is the handler awaiting the call
\* and what that handler holds meanwhile
EnsureAt(pc, user, profileData, supplierData, caller) ==
    [pc |-> pc, user |-> user, profileData |-> profileData, supplierData |-> supplierData,
     caller |-> caller]

\* the call is not made from within a handler of the Products page
NoCaller == [fn |-> "none"]

\* lines 747-757: no user, or the read of the caller's suppliers row
EnsureCall(c, caller) ==
    LET user == session[c]
        supplierData == Single({r \in suppliers :
                             r.user_id = user /\ SuppliersSelectPolicy(user, r)})
    IN proc' = [proc EXCEPT ![c] =
             IF user = NoUser \/ supplierData # {}
             THEN EnsureAt("en_return", user, {}, supplierData, caller)
             ELSE EnsureAt("en_profile", user, {}, {}, caller)]

\* ensureSupplierRecord() called by itself
EnsureStart(c) ==
    /\ proc[c] = Idle
    /\ EnsureCall(c, NoCaller)
    /\ UNCHANGED <<users, session, user_roles, supplier_profiles, vendor_profiles, suppliers, shop, pages>>

\* lines 758-767: the read of the caller's profile; without one the call throws,
\* which the catch turns into return null
EnsureReadProfile(c) ==
    /\ proc[c].pc = "en_profile"
    /\ LET p == proc[c]
           profileData == Single({r \in supplier_profiles :
                                r.user_id = p.user
                                /\ SupplierProfilesSelectPolicy(session[c], r)})
       IN proc' = [proc EXCEPT ![c] =
                IF profileData = {}
                THEN EnsureAt("en_return", p.user, {}, {}, p.caller)
                ELSE EnsureAt("en_insert", p.user, profileData, {}, p.caller)]
    /\ UNCHANGED <<users, session, user_roles, supplier_profiles, vendor_profiles, suppliers, shop, pages>>

\* the suppliers row ensureSupplierRecord builds from the profile (lines 772-778)
EnsureSupplierRow(user, profile) ==
    [id |-> NewId(suppliers, user), user_id |-> user, name |-> profile.business_name,
     contact_email |-> profile.contact_number, address |-> profile.business_address,
     status |-> "active"]

\* lines 769-790: the insert; an error is thrown and the catch returns null
EnsureInsert(c) ==
    /\ proc[c].pc = "en_insert"
    /\ LET p == proc[c]
           profile == CHOOSE r \in p.profileData : TRUE
           row == EnsureSupplierRow(p.user, profile)
           ok == SuppliersInsertError(session[c], row) = "none"
       IN /\ suppliers' = IF ok THEN suppliers \cup {row} ELSE suppliers
          /\ proc' = [proc EXCEPT ![c] =
                EnsureAt("en_return", p.user, p.profileData, IF ok THEN {row} ELSE {},
                         p.caller)]
    /\ UNCHANGED <<users, session, user_roles, supplier_profiles, vendor_profiles, shop, pages>>

\* line 786 / 789: return supplierData, or null
EnsureDone(c) ==
    /\ proc[c].pc = "en_return"
    /\ proc[c].caller = NoCaller
    /\ proc' = [proc EXCEPT ![c] = Idle]
    /\ UNCHANGED <<users, session, user_roles, supplier_profiles, vendor_profiles, suppliers, shop, pages>>

\* one step of client c's ensureSupplierRecord
EnsureStep(c) ==
    \/ EnsureStart(c)
    \/ EnsureReadProfile(c)
    \/ EnsureInsert(c)
    \/ EnsureDone(c)

\* ------------------------------------------------------------------ Orders
\* orders.status values (Order.status)
OrderStatuses == {"pending", "confirmed", "shipped", "delivered", "cancelled"}

\* the status filter of the Orders page: 'all' or one status
StatusFilters == {"all"} \cup OrderStatuses

\* exists (select 1 from suppliers s where s.id = supplier_id and s.user_id = auth.uid())
OwnsSupplier(uid, supplier_id) ==
    \E sup \in suppliers : sup.id = supplier_id /\ sup.user_id = uid

\* a select policy on orders that also lets a superadmin see every order
OrdersSelectPolicyWithSuperadmin(uid, row) ==
    uid = row.user_id \/ OwnsSupplier(uid, row.supplier_id) \/ IsSuperadmin(uid)

\* "Users can view their own orders" OR "Suppliers can view orders for their products"
OrdersSelectPolicy(uid, row) == uid = row.user_id \/ OwnsSupplier(uid, row.supplier_id)

\* "Users can insert their own orders"
OrdersInsertCheck(uid, row) == uid = row.user_id

\* "Users can update their own orders" OR "Suppliers can update orders for their products"
OrdersUpdatePolicy(uid, row) == uid = row.user_id \/ OwnsSupplier(uid, row.supplier_id)

\* orders: the three foreign keys
OrdersConstraints(row) ==
    /\ row.user_id \in users
    /\ \E pr \in products : pr.id = row.product_id
    /\ \E sup \in suppliers : sup.id = row.supplier_id

\* the error of insert into orders
OrdersInsertError(uid, row) ==
    IF ~OrdersInsertCheck(uid, row) THEN "policy"
    ELSE IF ~OrdersConstraints(row) THEN "constraint"
    ELSE "none"

\* the rows update orders ... where id = orderId touches for this caller
OrdersUpdatable(uid, orderId) ==
    {o \in orders : /\ o.id = orderId
                    /\ OrdersUpdatePolicy(uid, o)
                    /\ OrdersSelectPolicy(uid, o)}

\* update orders set status = newStatus where id = orderId
OrdersUpdate(uid, orderId, newStatus) ==
    LET rows == OrdersUpdatable(uid, orderId)
    IN (orders \ rows) \cup {[o EXCEPT !.status = newStatus] : o \in rows}

\* the role of useAuth's userRole, "none" for null (userRole?.role)
RoleOf(c) == IF userRole[c] = {} THEN "none" ELSE (CHOOSE r \in userRole[c] : TRUE).role

\* fetchOrders: the rows the query yields for client c with the given status filter
FetchedOrders(c, statusFilter, table) ==
    LET uid == session[c]
        supplierData == Single({sup \in suppliers : sup.user_id = uid})
    IN {o \in table :
            /\ OrdersSelectPolicy(uid, o)
            /\ RoleOf(c) = "supplier" /\ supplierData # {}
                 => \E sup \in supplierData : o.supplier_id = sup.id
            /\ RoleOf(c) = "vendor" => o.user_id = uid
            /\ statusFilter # "all" => o.status = statusFilter}

\* fetchOrders (lines 1452-1507), run when the page mounts or is reloaded
fetchOrders(c) ==
    /\ proc[c] = Idle
    /\ \E statusFilter \in StatusFilters :
        ordersList' = [ordersList EXCEPT ![c] = FetchedOrders(c, statusFilter, orders)]
    /\ UNCHANGED <<pages, accountTables, session, products, orders, userRole, proc>>

\* the price taken from the products table when the order is written
PlaceOrderRowStoredPrice(uid, product, supplier) ==
    LET rows == {pr \in products : pr.id = product.id}
        price == IF rows = {} THEN product.unit_price
                 ELSE (CHOOSE pr \in rows : TRUE).unit_price
    IN [id |-> NewId(orders, uid), user_id |-> uid,
        product_id |-> product.id, supplier_id |-> supplier.id,
        quantity |-> 1, unit_price |-> price,
        total_amount |-> price, status |-> "pending"]

PlaceOrderRowOtherSupplier(uid, product, supplier) ==
    LET others == {sup \in suppliers : sup.id # supplier.id}
        other == IF others = {} THEN supplier ELSE CHOOSE sup \in others : TRUE
    IN [id |-> NewId(orders, uid), user_id |-> uid,
        product_id |-> product.id, supplier_id |-> other.id,
        quantity |-> 1, unit_price |-> product.unit_price,
        total_amount |-> product.unit_price, status |-> "pending"]

\* the orders row handlePlaceOrder inserts (lines 714-722) for the product as
\* the page holds it
PlaceOrderRow(uid, product, supplier) ==
    [id |-> NewId(orders, uid), user_id |-> uid,
     product_id |-> product.id, supplier_id |-> supplier.id,
     quantity |-> 1, unit_price |-> product.unit_price,
     total_amount |-> product.unit_price, status |-> "pending"]

\* handlePlaceOrder (lines 696-743) from a vendor's Order button on a product of
\* the page's list; the browser then loads /orders, whose page fetches the orders
handlePlaceOrder(c) ==
    /\ proc[c] = Idle
    /\ RoleOf(c) = "vendor"
    /\ Cardinality(orders) < MaxOrders
    /\ \E product \in productsList[c] :
        LET supplierData == Single({sup \in suppliers : sup.id = product.supplier_id})
            supplier == CHOOSE sup \in supplierData : TRUE
            row == PlaceOrderRow(session[c], product, supplier)
        IN /\ supplierData # {}
           /\ OrdersInsertError(session[c], row) = "none"
           /\ orders' = orders \cup {row}
           /\ ordersList' = [ordersList EXCEPT ![c] =
                                FetchedOrders(c, "all", orders \cup {row})]
    /\ UNCHANGED <<pages, accountTables, session, products, userRole, proc>>

\* canUpdateStatus (lines 1589-1594)
canUpdateStatus(c, order) ==
    IF RoleOf(c) = "supplier"
    THEN order.status = "pending" \/ order.status = "confirmed"
    ELSE FALSE

\* getNextStatus (lines 1596-1603)
getNextStatus(currentStatus) ==
    CASE currentStatus = "pending" -> "confirmed"
      [] currentStatus = "confirmed" -> "shipped"
      [] currentStatus = "shipped" -> "delivered"
      [] OTHER -> currentStatus

\* a status update of the Orders page on its way to the database: the order as
\* the page shows it and the status asked for
OrderRequest(op, order, newStatus) ==
    [pc |-> "ord_update", op |-> op, order |-> order, newStatus |-> newStatus]

\* the Confirm / Ship button (lines 1717-1724) calls
\* handleUpdateOrderStatus(order.id, getNextStatus(order.status))
ClickAdvance(c) ==
    /\ proc[c] = Idle
    /\ \E order \in ordersList[c] :
        /\ RoleOf(c) = "supplier" /\ canUpdateStatus(c, order)
        /\ proc' = [proc EXCEPT ![c] =
                OrderRequest("advance", order, getNextStatus(order.status))]
    /\ UNCHANGED <<accountTables, session, shop, pages>>

\* the Cancel button (lines 1725-1734) calls handleCancelOrder(order.id); the
\* user confirms the dialog
ClickCancel(c) ==
    /\ proc[c] = Idle
    /\ \E order \in ordersList[c] :
        /\ RoleOf(c) = "vendor" /\ order.status = "pending"
        /\ proc' = [proc EXCEPT ![c] = OrderRequest("cancel", order, "cancelled")]
    /\ UNCHANGED <<accountTables, session, shop, pages>>

\* handleUpdateOrderStatus / handleCancelOrder: the update is applied
\* (lines 1511-1516 and 1537-1542)
ApplyOrderUpdate(c) ==
    /\ proc[c].pc = "ord_update"
    /\ orders' = OrdersUpdate(session[c], proc[c].order.id, proc[c].newStatus)
    /\ proc' = [proc EXCEPT ![c] = [@ EXCEPT !.pc = "ord_toast"]]
    /\ UNCHANGED <<pages, accountTables, session, products, userRole, ordersList>>

\* the toast, then fetchOrders() (lines 1518-1523 and 1544-1549)
OrderUpdated(c) ==
    /\ proc[c].pc = "ord_toast"
    /\ \E statusFilter \in StatusFilters :
        ordersList' = [ordersList EXCEPT ![c] = FetchedOrders(c, statusFilter, orders)]
    /\ proc' = [proc EXCEPT ![c] = Idle]
    /\ UNCHANGED <<pages, accountTables, session, products, orders, userRole>>

\* handleUpdateOrderStatus(orderId, newStatus) (lines 1509-1516) called for
\* an order of the table whether or not the caller's page lists it
handleUpdateOrderStatus(c) ==
    /\ proc[c] = Idle
    /\ session[c] # NoUser
    /\ \E order \in orders, newStatus \in OrderStatuses :
        proc' = [proc EXCEPT ![c] = OrderRequest("request", order, newStatus)]
    /\ UNCHANGED <<accountTables, session, shop, pages>>

\* one step of client c on the Products and Orders pages
OrderStep(c) ==
    \/ fetchOrders(c)
    \/ handlePlaceOrder(c)
    \/ ClickAdvance(c)
    \/ ClickCancel(c)
    \/ ApplyOrderUpdate(c)
    \/ OrderUpdated(c)

\* ---------------------------------------------------------------- Products
\* prices typed into the product form (formData.price)
Prices == {100, 120}

\* SKUs typed into the product form; '' when the field is left empty
FormSkus == {"", "TEA-7"}

\* values of Date.now() when a product is added
Times == {1001, 1002}

\* "Anyone can view products"
ProductsSelectPolicy(uid, row) == TRUE

\* "Suppliers can insert their own products"
ProductsInsertCheck(uid, row) == OwnsSupplier(uid, row.supplier_id)

\* an update policy that asks for the referenced supplier but not for its owner
ProductsUpdatePolicyAnySupplier(uid, row) ==
    \E sup \in suppliers : sup.id = row.supplier_id

\* "Suppliers can update their own products"
ProductsUpdatePolicy(uid, row) == OwnsSupplier(uid, row.supplier_id)

\* "Suppliers can delete their own products"
ProductsDeletePolicy(uid, row) == OwnsSupplier(uid, row.supplier_id)

\* products.supplier_id references suppliers(id) not null; sku is plain text
ProductsConstraints(row) == \E sup \in suppliers : sup.id = row.supplier_id

\* the error of insert into products of a set of rows (one statement)
ProductsInsertError(uid, rows) ==
    IF \E row \in rows : ~ProductsInsertCheck(uid, row) THEN "policy"
    ELSE IF \E row \in rows : ~ProductsConstraints(row) THEN "constraint"
    ELSE "none"

\* the second components of the product ids some table, page or handler holds
KnownProductKeys ==
    {pr.id[2] : pr \in products} \cup {o.product_id[2] : o \in orders}
    \cup UNION {{pr.id[2] : pr \in productsList[c]} : c \in Clients}
    \cup UNION {IF proc[c].pc \in {"fp_set", "en_profile", "en_insert", "en_return"}
                   /\ proc[c].caller.fn = "fetchProducts"
                THEN {pr.id[2] : pr \in proc[c].caller.finalProducts} ELSE {}
                : c \in Clients}

\* id uuid primary key default gen_random_uuid() for the i-th of n rows of one
\* insert: ids nothing holds yet
NewProductId(i, n) ==
    LET free == (1..(Cardinality(KnownProductKeys) + n)) \ KnownProductKeys
    IN <<0, CHOOSE k \in free : Cardinality({j \in free : j < k}) = i - 1>>

\* the rows update products ... where id = productId touches for this caller
ProductsUpdatable(uid, productId) ==
    {pr \in products : /\ pr.id = productId
                       /\ ProductsUpdatePolicy(uid, pr)
                       /\ ProductsSelectPolicy(uid, pr)}

\* the rows delete from products where id = productId removes for this caller
ProductsDeletable(uid, productId) ==
    {pr \in products : /\ pr.id = productId
                       /\ ProductsDeletePolicy(uid, pr)
                       /\ ProductsSelectPolicy(uid, pr)}

\* sampleProducts (lines 489-520) with their generated ids
SampleProducts(supplierId) ==
    {[id |-> NewProductId(1, 3), supplier_id |-> supplierId, unit_price |-> 150,
      status |-> "active", sku |-> "RICE-001"],
     [id |-> NewProductId(2, 3), supplier_id |-> supplierId, unit_price |-> 80,
      status |-> "active", sku |-> "FLOUR-001"],
     [id |-> NewProductId(3, 3), supplier_id |-> supplierId, unit_price |-> 120,
      status |-> "active", sku |-> "VEG-001"]}

\* the sample supplier of createSampleDataIfNeeded (lines 470-476)
SampleSupplier(user) ==
    [id |-> NewId(suppliers, user), user_id |-> user, name |-> "Sample Supplier Co.",
     contact_email |-> "contact@samplesupplier.com",
     address |-> "123 Sample Street, Sample City", status |-> "active"]

\* fetchProducts / createSampleDataIfNeeded at one of their awaits
FetchAt(pc) == [pc |-> pc, caller |-> NoCaller]

\* fetchProducts() called at the end of a handler, after its success toast
FetchAfter(toast) == [pc |-> "fp_all", caller |-> NoCaller, toast |-> toast]

\* useEffect (lines 313-317): the page loads its products for a signed-in user
FetchProductsStart(c) ==
    /\ proc[c] = Idle
    /\ session[c] # NoUser
    /\ proc' = [proc EXCEPT ![c] = FetchAfter("none")]
    /\ UNCHANGED <<accountTables, session, shop, pages>>

\* lines 337-351 and 447-451: the first read of products; with none, sample
\* data is created unless no user is signed in
FetchAllProducts(c) ==
    /\ proc[c].pc = "fp_all"
    /\ LET allProducts == {pr \in products : ProductsSelectPolicy(session[c], pr)}
       IN proc' = [proc EXCEPT ![c] =
                IF allProducts # {} THEN FetchAt("fp_final")
                ELSE IF session[c] = NoUser THEN FetchAt("fp_retry")
                ELSE FetchAt("seed_suppliers")]
    /\ UNCHANGED <<accountTables, session, shop, pages>>

\* createSampleDataIfNeeded, lines 456-463: from('suppliers').select('*').limit(1)
SeedReadSuppliers(c) ==
    /\ proc[c].pc = "seed_suppliers"
    /\ \/ /\ suppliers = {}
          /\ proc' = [proc EXCEPT ![c] = FetchAt("seed_supplier")]
       \/ \E sup \in suppliers :
            proc' = [proc EXCEPT ![c] =
                [pc |-> "seed_products", caller |-> NoCaller, supplierId |-> sup.id]]
    /\ UNCHANGED <<accountTables, session, shop, pages>>

\* createSampleDataIfNeeded, lines 464-486: the sample supplier is inserted
SeedInsertSupplier(c) ==
    /\ proc[c].pc = "seed_supplier"
    /\ LET row == SampleSupplier(session[c])
           ok == SuppliersInsertError(session[c], row) = "none"
       IN /\ suppliers' = IF ok THEN suppliers \cup {row} ELSE suppliers
          /\ proc' = [proc EXCEPT ![c] =
                IF ok THEN [pc |-> "seed_products", caller |-> NoCaller,
                            supplierId |-> row.id]
                ELSE FetchAt("fp_retry")]
    /\ UNCHANGED <<users, session, user_roles, supplier_profiles, vendor_profiles, shop, pages>>
\* createSampleDataIfNeeded, lines 488-533: the three sample products are
\* inserted in one statement; an error is logged
SeedInsertProducts(c) ==
    /\ proc[c].pc = "seed_products"
    /\ LET rows == SampleProducts(proc[c].supplierId)
       IN products' = IF ProductsInsertError(session[c], rows) = "none"
                      THEN products \cup rows ELSE products
    /\ proc' = [proc EXCEPT ![c] = FetchAt("fp_retry")]
    /\ UNCHANGED <<accountTables, session, orders, userRole, ordersList, pages>>

\* fetchProducts, lines 353-366: the read after createSampleDataIfNeeded
FetchRetryProducts(c) ==
    /\ proc[c].pc = "fp_retry"
    /\ LET retryProducts == {pr \in products : ProductsSelectPolicy(session[c], pr)}
       IN IF retryProducts # {}
          THEN /\ proc' = [proc EXCEPT ![c] = FetchAt("fp_final")]
               /\ UNCHANGED productsList
          ELSE /\ proc' = [proc EXCEPT ![c] = Idle]
               /\ productsList' = [productsList EXCEPT ![c] = {}]
    /\ UNCHANGED <<accountTables, session, shop, pendingSuppliers, userDataFetch>>

\* the values of the Products page's status filter (lines 296, 989)
ProductStatusFilters == {"all", "active", "inactive"}

\* what fetchProducts holds while it goes on: the rows it has read and the
\* status filter selected on the page
FetchProductsCaller(finalProducts, statusFilter) ==
    [fn |-> "fetchProducts", finalProducts |-> finalProducts, statusFilter |-> statusFilter]

\* fetchProducts, lines 369-412: the read of finalProducts; a supplier's page
\* then calls ensureSupplierRecord()
FetchFinalProducts(c) ==
    /\ proc[c].pc = "fp_final"
    /\ LET finalProducts == {pr \in products : ProductsSelectPolicy(session[c], pr)}
       IN IF finalProducts = {}
          THEN /\ proc' = [proc EXCEPT ![c] = Idle]
               /\ productsList' = [productsList EXCEPT ![c] = {}]
          ELSE /\ UNCHANGED productsList
               /\ \E statusFilter \in ProductStatusFilters :
                    IF RoleOf(c) = "supplier"
                    THEN EnsureCall(c, FetchProductsCaller(finalProducts, statusFilter))
                    ELSE proc' = [proc EXCEPT ![c] =
                              [pc |-> "fp_set",
                               caller |-> FetchProductsCaller(finalProducts, statusFilter)]]
    /\ UNCHANGED <<accountTables, session, shop, pendingSuppliers, userDataFetch>>

\* fetchProducts, lines 413-436: the filtered query, whose rows are not used,
\* then setProducts(finalProducts)
FetchSetProducts(c) ==
    /\ proc[c].pc \in {"fp_set", "en_return"}
    /\ proc[c].caller.fn = "fetchProducts"
    /\ productsList' = [productsList EXCEPT ![c] = proc[c].caller.finalProducts]
    /\ proc' = [proc EXCEPT ![c] = Idle]
    /\ UNCHANGED <<accountTables, session, shop, pendingSuppliers, userDataFetch>>

\* handleAddProduct, lines 540-543, from a supplier's Add Product dialog
\* (lines 813, 927): ensureSupplierRecord() is called first
handleAddProduct(c) ==
    /\ proc[c] = Idle
    /\ RoleOf(c) = "supplier"
    /\ Cardinality(products) < MaxProducts
    /\ \E sku \in FormSkus, price \in Prices :
        EnsureCall(c, [fn |-> "handleAddProduct", formData |-> [sku |-> sku, price |-> price]])
    /\ UNCHANGED <<accountTables, session, shop, pages>>

\* line 563: formData.sku || `SKU-${Date.now()}`
SkuOrGenerated(sku, now) == IF sku # "" THEN sku ELSE "SKU-" \o ToString(now)

\* handleAddProduct, lines 545-593: without a supplier record an error toast;
\* else the insert, and after it fetchProducts()
AddProductInsert(c) ==
    /\ proc[c].pc = "en_return"
    /\ proc[c].caller.fn = "handleAddProduct"
    /\ IF proc[c].supplierData = {}
       THEN /\ proc' = [proc EXCEPT ![c] = Idle]
            /\ UNCHANGED products
       ELSE \E now \in Times :
            LET supplierData == CHOOSE sup \in proc[c].supplierData : TRUE
                formData == proc[c].caller.formData
                row == [id |-> NewProductId(1, 1), supplier_id |-> supplierData.id,
                        unit_price |-> formData.price, status |-> "active",
                        sku |-> SkuOrGenerated(formData.sku, now)]
                ok == ProductsInsertError(session[c], {row}) = "none"
            IN /\ products' = IF ok THEN products \cup {row} ELSE products
               /\ proc' = [proc EXCEPT ![c] =
                        IF ok THEN FetchAfter("Product added successfully!") ELSE Idle]
    /\ UNCHANGED <<accountTables, session, orders, userRole, ordersList, pages>>

\* handleUpdateProduct (lines 596-640) on a product of the page's list, from a
\* supplier's Edit dialog (lines 1066-1071, 1245); then fetchProducts()
handleUpdateProduct(c) ==
    /\ proc[c] = Idle
    /\ RoleOf(c) = "supplier"
    /\ \E editingProduct \in productsList[c], price \in Prices :
       \E sku \in (FormSkus \ {""}) \cup {editingProduct.sku} :
        LET rows == ProductsUpdatable(session[c], editingProduct.id)
        IN products' = (products \ rows) \cup
                {[pr EXCEPT !.unit_price = price, !.status = "active", !.sku = sku] : pr \in rows}
    /\ proc' = [proc EXCEPT ![c] = FetchAfter("Product updated successfully!")]
    /\ UNCHANGED <<accountTables, session, orders, userRole, ordersList, pages>>

\* handleDeleteProduct (lines 642-666) on a product of the page's list, from a
\* supplier's Delete button (lines 1066-1079); orders.product_id references
\* the row, so a product with orders is kept and the error is shown
handleDeleteProduct(c) ==
    /\ proc[c] = Idle
    /\ RoleOf(c) = "supplier"
    /\ \E product \in productsList[c] :
        LET rows == ProductsDeletable(session[c], product.id)
            error == \E pr \in rows, o \in orders : o.product_id = pr.id
        IN /\ products' = IF error THEN products ELSE products \ rows
           /\ proc' = [proc EXCEPT ![c] =
                    IF error THEN Idle ELSE FetchAfter("Product deleted successfully!")]
    /\ UNCHANGED <<accountTables, session, orders, userRole, ordersList, pages>>

\* one step of client c's fetchProducts
FetchProductsStep(c) ==
    \/ FetchProductsStart(c)
    \/ FetchAllProducts(c)
    \/ SeedReadSuppliers(c)
    \/ SeedInsertSupplier(c)
    \/ SeedInsertProducts(c)
    \/ FetchRetryProducts(c)
    \/ FetchFinalProducts(c)
    \/ EnsureReadProfile(c)
    \/ EnsureInsert(c)
    \/ FetchSetProducts(c)

\* ------------------------------------------------------ specifications
\* one step of client c's handlers of the sign-up and approval workflow
AuthStep(c) ==
    \/ SignIn(c)
    \/ SignOut(c)
    \/ SignUpStart(c)
    \/ SignUpAuth(c)
    \/ SignUpInsertRole(c)
    \/ SignUpInsertSupplierProfile(c)
    \/ SignUpInsertSupplier(c)
    \/ SignUpInsertVendorProfile(c)
    \/ SignUpDone(c)
    \/ handleApproveSupplier(c)
    \/ handleRejectSupplier(c)
    \/ ShowToast(c)

\* the workflow as one browser session drives it, one handler after the other
Next == \E c \in {"c1"} : AuthStep(c)

Spec == Init /\ [][Next]_vars

\* one step of client c's signUp
SignUpStep(c) ==
    \/ SignUpStart(c)
    \/ SignUpAuth(c)
    \/ SignUpInsertRole(c)
    \/ SignUpInsertSupplierProfile(c)
    \/ SignUpInsertSupplier(c)
    \/ SignUpInsertVendorProfile(c)
    \/ SignUpDone(c)

\* the accounts signed up while their addresses were unconfirmed (they got no
\* user_roles row); the first is now signed in in both browser sessions
InitSignUpRace ==
    /\ users = Accounts
    /\ session = [c \in Clients |-> 1]
    /\ user_roles = {}
    /\ supplier_profiles = {}
    /\ vendor_profiles = {}
    /\ suppliers = {}
    /\ products = {} /\ orders = {}
    /\ userRole = [c \in Clients |-> {}]
    /\ ordersList = [c \in Clients |-> {}]
    /\ productsList = [c \in Clients |-> {}]
    /\ pendingSuppliers = [c \in Clients |-> {}]
    /\ userDataFetch = [c \in Clients |-> {}]
    /\ proc = [c \in Clients |-> Idle]

\* signUp calls of the two sessions, their requests interleaved
NextSignUpRace == \E c \in Clients : SignUpStep(c)

SpecSignUpRace == InitSignUpRace /\ [][NextSignUpRace]_vars

\* a supplier_profiles row written before the suppliers table and its trigger
\* existed (split_profiles.sql creates the profile tables alone)
LegacyProfile(u) ==
    [id |-> <<u, 0>>, user_id |-> u, business_name |-> "Acme",
     contact_number |-> "98450", business_address |-> "12 Mill Rd"]

\* the first account is signed in in both browser sessions. It is a supplier
\* with such an older profile and no suppliers row yet, or an account that
\* signed up while its address was unconfirmed and has no rows at all.
InitEnsureRace ==
    /\ users = Accounts
    /\ session = [c \in Clients |-> 1]
    /\ \/ /\ user_roles = {[id |-> <<1, 0>>, user_id |-> 1, role |-> "supplier",
                            approval_status |-> "pending"]}
          /\ supplier_profiles = {LegacyProfile(1)}
       \/ /\ user_roles = {}
          /\ supplier_profiles = {}
    /\ vendor_profiles = {}
    /\ suppliers = {}
    /\ products = {} /\ orders = {}
    /\ userRole = [c \in Clients |-> {}]
    /\ ordersList = [c \in Clients |-> {}]
    /\ productsList = [c \in Clients |-> {}]
    /\ pendingSuppliers = [c \in Clients |-> {}]
    /\ userDataFetch = [c \in Clients |-> {}]
    /\ proc = [c \in Clients |-> Idle]

\* ensureSupplierRecord and signUp calls of the two sessions, interleaved
NextEnsureRace == \E c \in Clients : EnsureStep(c) \/ SignUpStep(c)

SpecEnsureRace == InitEnsureRace /\ [][NextEnsureRace]_vars

\* a marketplace after its sign-ups: account 1 is a vendor, account 2 a supplier
\* whose profile insert created its suppliers row, with one product listed; each
\* browser session is signed in as one of the two, its userRole loaded
InitOrders ==
    /\ users = Accounts
    /\ user_roles =
        {[id |-> <<1, 0>>, user_id |-> 1, role |-> "vendor",
          approval_status |-> "approved"],
         [id |-> <<2, 0>>, user_id |-> 2, role |-> "supplier",
          approval_status |-> "approved"]}
    /\ vendor_profiles =
        {[id |-> <<1, 0>>, user_id |-> 1,
          company_name |-> "Asha Stores", contact_number |-> "98450"]}
    /\ supplier_profiles = {LegacyProfile(2)}
    /\ suppliers =
        {[id |-> <<2, 0>>, user_id |-> 2, name |-> "Acme",
          contact_email |-> "98450", address |-> NullText, status |-> "active"]}
    /\ products = {[id |-> <<0, 1>>, supplier_id |-> <<2, 0>>,
                    unit_price |-> 100, status |-> "active", sku |-> "TEA-7"]}
    /\ orders = {}
    /\ session \in [Clients -> {1, 2}]
    /\ userRole = [c \in Clients |-> {r \in user_roles : r.user_id = session[c]}]
    /\ ordersList = [c \in Clients |-> {}]
    /\ productsList = [c \in Clients |-> products]
    /\ pendingSuppliers = [c \in Clients |-> {}]
    /\ userDataFetch = [c \in Clients |-> {}]
    /\ proc = [c \in Clients |-> Idle]

\* the Products and Orders pages of the two sessions, their requests interleaved
NextOrders == \E c \in Clients : OrderStep(c)

SpecOrders == InitOrders /\ [][NextOrders]_vars

\* the marketplace with an empty catalogue: account 1 is a vendor, account 2 a
\* supplier with its profile, with its suppliers row or (an older account)
\* still without it; each browser session is signed in as one of the two, its
\* userRole loaded
InitSeeding ==
    /\ users = Accounts
    /\ user_roles =
        {[id |-> <<1, 0>>, user_id |-> 1, role |-> "vendor",
          approval_status |-> "approved"],
         [id |-> <<2, 0>>, user_id |-> 2, role |-> "supplier",
          approval_status |-> "approved"]}
    /\ vendor_profiles =
        {[id |-> <<1, 0>>, user_id |-> 1,
          company_name |-> "Asha Stores", contact_number |-> "98450"]}
    /\ supplier_profiles = {LegacyProfile(2)}
    /\ \/ suppliers = {}
       \/ suppliers =
            {[id |-> <<2, 0>>, user_id |-> 2, name |-> "Acme",
              contact_email |-> "98450", address |-> NullText, status |-> "active"]}
    /\ products = {}
    /\ orders = {}
    /\ session \in [Clients -> {1, 2}]
    /\ userRole = [c \in Clients |-> {r \in user_roles : r.user_id = session[c]}]
    /\ ordersList = [c \in Clients |-> {}]
    /\ productsList = [c \in Clients |-> {}]
    /\ pendingSuppliers = [c \in Clients |-> {}]
    /\ userDataFetch = [c \in Clients |-> {}]
    /\ proc = [c \in Clients |-> Idle]

\* the Products pages of the two sessions load, their requests interleaved
NextSeeding == \E c \in Clients : FetchProductsStep(c)

SpecSeeding == InitSeeding /\ [][NextSeeding]_vars

\* one step of client c's fetchProducts while the catalogue has products
FetchListedStep(c) ==
    \/ FetchProductsStart(c)
    \/ FetchAllProducts(c)
    \/ FetchFinalProducts(c)
    \/ FetchSetProducts(c)

\* one step of a supplier's client c on the Products page
CatalogStep(c) ==
    \/ FetchListedStep(c)
    \/ EnsureReadProfile(c)
    \/ handleAddProduct(c)
    \/ AddProductInsert(c)
    \/ handleUpdateProduct(c)
    \/ handleDeleteProduct(c)

\* the marketplace with a catalogue: account 1 is a vendor; account 2 is a
\* supplier with its profile and suppliers row and one product listed, which
\* account 1 has ordered once; account 3 signed up as a supplier but its
\* profile insert failed, so it has its pending role row and nothing else. The
\* two browser sessions are signed in as sessions says, userRole and the
\* Products page loaded
InitShopWith(sessions, thirdRole) ==
    /\ users = {1, 2, 3}
    /\ user_roles =
        {[id |-> <<1, 0>>, user_id |-> 1, role |-> "vendor", approval_status |-> "approved"],
         [id |-> <<2, 0>>, user_id |-> 2, role |-> "supplier", approval_status |-> "approved"],
         thirdRole}
    /\ vendor_profiles =
        {[id |-> <<1, 0>>, user_id |-> 1,
          company_name |-> "Asha Stores", contact_number |-> "98450"]}
    /\ supplier_profiles = {LegacyProfile(2)}
    /\ suppliers =
        {[id |-> <<2, 0>>, user_id |-> 2, name |-> "Acme",
          contact_email |-> "98450", address |-> NullText, status |-> "active"]}
    /\ products = {[id |-> <<0, 1>>, supplier_id |-> <<2, 0>>,
                    unit_price |-> 100, status |-> "active", sku |-> "TEA-7"]}
    /\ orders = {[id |-> <<1, 0>>, user_id |-> 1, product_id |-> <<0, 1>>,
                  supplier_id |-> <<2, 0>>, quantity |-> 1, unit_price |-> 100,
                  total_amount |-> 100, status |-> "pending"]}
    /\ session = sessions
    /\ userRole = [c \in Clients |-> {r \in user_roles : r.user_id = session[c]}]
    /\ ordersList = [c \in Clients |-> {}]
    /\ productsList = [c \in Clients |-> products]
    /\ pendingSuppliers = [c \in Clients |-> {}]
    /\ userDataFetch = [c \in Clients |-> {}]
    /\ proc = [c \in Clients |-> Idle]

\* the shop with account 3 a supplier whose sign-up left it without a profile
InitShop(sessions) ==
    InitShopWith(sessions, [id |-> <<3, 0>>, user_id |-> 3,
                            role |-> "supplier", approval_status |-> "pending"])

\* one of the two supplier accounts at its Products page, the other browser
\* session signed out
InitCatalog == \E u \in {2, 3} : InitShop([c1 |-> u, c2 |-> NoUser])

\* the Products page of that session in use
NextCatalog == \E c \in {"c1"} : CatalogStep(c)

SpecCatalog == InitCatalog /\ [][NextCatalog]_vars

\* one step of client c on the Products page: the owner changes prices, the
\* vendor orders
PricingStep(c) ==
    \/ FetchListedStep(c)
    \/ handleUpdateProduct(c)
    \/ handlePlaceOrder(c)

\* the vendor and the supplier of the listed product at their Products pages
InitPricing == InitShop([c1 |-> 1, c2 |-> 2])

NextPricing == \E c \in Clients : PricingStep(c)

SpecPricing == InitPricing /\ [][NextPricing]_vars


\* a shop of two approved suppliers with a product each and no order yet: the
\* vendor (account 1) and one of the suppliers at their Products pages
InitTwoSuppliers ==
    /\ users = {1, 2, 3}
    /\ user_roles =
        {[id |-> <<1, 0>>, user_id |-> 1, role |-> "vendor", approval_status |-> "approved"],
         [id |-> <<2, 0>>, user_id |-> 2, role |-> "supplier", approval_status |-> "approved"],
         [id |-> <<3, 0>>, user_id |-> 3, role |-> "supplier", approval_status |-> "approved"]}
    /\ vendor_profiles =
        {[id |-> <<1, 0>>, user_id |-> 1,
          company_name |-> "Asha Stores", contact_number |-> "98450"]}
    /\ supplier_profiles =
        {LegacyProfile(2),
         [id |-> <<3, 0>>, user_id |-> 3, business_name |-> "Bharat Mills",
          contact_number |-> "98451", business_address |-> "4 Canal St"]}
    /\ suppliers =
        {[id |-> <<2, 0>>, user_id |-> 2, name |-> "Acme",
          contact_email |-> "98450", address |-> NullText, status |-> "active"],
         [id |-> <<3, 0>>, user_id |-> 3, name |-> "Bharat Mills",
          contact_email |-> "98451", address |-> NullText, status |-> "active"]}
    /\ products = {[id |-> <<0, 1>>, supplier_id |-> <<2, 0>>,
                    unit_price |-> 100, status |-> "active", sku |-> "TEA-7"],
                   [id |-> <<0, 2>>, supplier_id |-> <<3, 0>>,
                    unit_price |-> 100, status |-> "active", sku |-> "RICE-1"]}
    /\ orders = {}
    /\ \E u \in {2, 3} : session = [c1 |-> 1, c2 |-> u]
    /\ userRole = [c \in Clients |-> {r \in user_roles : r.user_id = session[c]}]
    /\ ordersList = [c \in Clients |-> {}]
    /\ productsList = [c \in Clients |-> {pr \in products :
                            RoleOf(c) = "vendor" \/ pr.supplier_id = <<session[c], 0>>}]
    /\ pendingSuppliers = [c \in Clients |-> {}]
    /\ userDataFetch = [c \in Clients |-> {}]
    /\ proc = [c \in Clients |-> Idle]

\* the vendor orders; the supplier edits and deletes its products
NextTwoSuppliers ==
    \/ handlePlaceOrder("c1")
    \/ handleUpdateProduct("c2")
    \/ handleDeleteProduct("c2")
    \/ \E c \in Clients : FetchListedStep(c)

SpecTwoSuppliers == InitTwoSuppliers /\ [][NextTwoSuppliers]_vars

\* the shop with account 3 a supplier that is still pending and has its
\* profile and its suppliers row, as sign-up leaves them
InitListing ==
    /\ users = {1, 2, 3}
    /\ user_roles =
        {[id |-> <<1, 0>>, user_id |-> 1, role |-> "vendor", approval_status |-> "approved"],
         [id |-> <<2, 0>>, user_id |-> 2, role |-> "supplier", approval_status |-> "approved"],
         [id |-> <<3, 0>>, user_id |-> 3, role |-> "supplier", approval_status |-> "pending"]}
    /\ vendor_profiles =
        {[id |-> <<1, 0>>, user_id |-> 1,
          company_name |-> "Asha Stores", contact_number |-> "98450"]}
    /\ supplier_profiles =
        {LegacyProfile(2),
         [id |-> <<3, 0>>, user_id |-> 3, business_name |-> "Bharat Mills",
          contact_number |-> "98451", business_address |-> "4 Canal St"]}
    /\ suppliers =
        {[id |-> <<2, 0>>, user_id |-> 2, name |-> "Acme",
          contact_email |-> "98450", address |-> NullText, status |-> "active"],
         [id |-> <<3, 0>>, user_id |-> 3, name |-> "Bharat Mills",
          contact_email |-> "98451", address |-> NullText, status |-> "active"]}
    /\ products = {[id |-> <<0, 1>>, supplier_id |-> <<2, 0>>,
                    unit_price |-> 100, status |-> "active", sku |-> "TEA-7"]}
    /\ orders = {}
    /\ \E u \in {1, 2} : session = [c1 |-> u, c2 |-> 3]
    /\ userRole = [c \in Clients |-> {r \in user_roles : r.user_id = session[c]}]
    /\ ordersList = [c \in Clients |-> {}]
    /\ productsList = [c \in Clients |-> {}]
    /\ pendingSuppliers = [c \in Clients |-> {}]
    /\ userDataFetch = [c \in Clients |-> {}]
    /\ proc = [c \in Clients |-> Idle]

\* the vendor's or the approved supplier's Products page loads; the pending
\* supplier's page loads and adds a product
NextListing ==
    \/ \E c \in Clients : FetchListedStep(c)
    \/ handleAddProduct("c2")
    \/ AddProductInsert("c2")

SpecListing == InitListing /\ [][NextListing]_vars

\* ---------------------------------------------------------------- Approvals
\* fetchUserData (useAuth lines 73-84), called by the auth listener and at mount
\* for a session with a user: the read of that user's role row is sent with the
\* session's token and its answer is awaited
fetchUserData(c) ==
    /\ session[c] # NoUser
    /\ userDataFetch[c] = {}
    /\ LET roleData == Single({r \in user_roles :
                            r.user_id = session[c] /\ UserRolesSelectPolicy(session[c], r)})
       IN userDataFetch' = [userDataFetch EXCEPT ![c] = {[roleData |-> roleData]}]
    /\ UNCHANGED <<accountTables, session, proc, shop, productsList, pendingSuppliers>>

\* the answer arrives (lines 83-84): .single() fails without exactly one row and
\* userRole stays as it was; otherwise setUserRole(roleData), whatever the
\* session is by now
SetUserRole(c) ==
    /\ userDataFetch[c] # {}
    /\ LET roleData == (CHOOSE f \in userDataFetch[c] : TRUE).roleData
       IN userRole' = [userRole EXCEPT ![c] = IF roleData # {} THEN roleData ELSE @]
    /\ userDataFetch' = [userDataFetch EXCEPT ![c] = {}]
    /\ UNCHANGED <<accountTables, session, proc, products, orders, ordersList,
                   productsList, pendingSuppliers>>

\* the rows the first query of fetchPendingSuppliers asks for (lines 2002-2007)
PendingSupplierRoles == {r \in user_roles : r.role = "supplier" /\ r.approval_status = "pending"}

\* fetchPendingSuppliers up to the answer of its first query (lines 1997-2012).
\* The page calls it when userRole is a superadmin's (useEffect, lines 1990-1995,
\* and the Refresh button of the page rendered for a superadmin) and after an
\* approve or reject; the answer has no error, its rows are those the select
\* policies let the caller see
fetchPendingSuppliers(c) ==
    /\ \/ proc[c] = Idle /\ RoleOf(c) = "superadmin"
       \/ proc[c].pc = "ap_toast"
    /\ LET userRoles == {r \in PendingSupplierRoles : UserRolesSelectPolicy(session[c], r)}
       IN proc' = [proc EXCEPT ![c] = [pc |-> "ap_profiles", userRoles |-> userRoles]]
    /\ UNCHANGED <<accountTables, session, shop, pages>>

\* the entry of the list for a role row (lines 2032-2047): the row and the
\* business name of its profile, '' without one
PendingEntry(role, profiles) ==
    LET own == {p \in profiles : p.user_id = role.user_id}
    IN [user_id |-> role.user_id, role |-> role.role,
        approval_status |-> role.approval_status,
        business_name |-> IF own = {} THEN ""
                          ELSE (CHOOSE p \in own : TRUE).business_name]

\* fetchPendingSuppliers, lines 2014-2049: the profiles of those users are
\* read and the combined list is set
FetchPendingProfiles(c) ==
    /\ proc[c].pc = "ap_profiles"
    /\ LET userIds == {r.user_id : r \in proc[c].userRoles}
           profiles == {p \in supplier_profiles :
                            /\ p.user_id \in userIds
                            /\ SupplierProfilesSelectPolicy(session[c], p)}
       IN pendingSuppliers' = [pendingSuppliers EXCEPT ![c] =
                                  {PendingEntry(r, profiles) : r \in proc[c].userRoles}]
    /\ proc' = [proc EXCEPT ![c] = Idle]
    /\ UNCHANGED <<accountTables, session, shop, productsList, userDataFetch>>

\* the Approve / Reject button of an entry of the page's list (lines 2235-2250)
\* calls the handler with the entry's user_id: the update (lines 2060-2063,
\* 2084-2087), which a valid status never fails, then the toast
ApprovalsUpdate(c, op, status) ==
    /\ proc[c] = Idle
    /\ RoleOf(c) = "superadmin"
    /\ \E supplier \in pendingSuppliers[c] :
        /\ user_roles' = UserRolesUpdate(session[c], supplier.user_id, status)
        /\ proc' = [proc EXCEPT ![c] =
                [pc |-> "ap_toast", op |-> op, target |-> supplier.user_id]]
    /\ UNCHANGED <<users, session, supplier_profiles, vendor_profiles, suppliers, shop, pages>>

\* Approvals.handleApproveSupplier (lines 2058-2080)
ApprovalsApprove(c) == ApprovalsUpdate(c, "approve", "approved")

\* Approvals.handleRejectSupplier (lines 2082-2104)
ApprovalsReject(c) == ApprovalsUpdate(c, "reject", "rejected")

\* one step of client c on the Approvals page, signing in and out included
ApprovalsStep(c) ==
    \/ SignIn(c)
    \/ SignOut(c)
    \/ fetchUserData(c)
    \/ SetUserRole(c)
    \/ fetchPendingSuppliers(c)
    \/ FetchPendingProfiles(c)
    \/ ApprovalsApprove(c)
    \/ ApprovalsReject(c)

\* a superadmin, two suppliers awaiting approval (the second without a
\* profile) and a vendor; the browser sessions are signed in as sessions says,
\* their roles loaded
InitApprovalsWith(sessions) ==
    /\ users = {1, 2, 3, 4}
    /\ user_roles =
        {[id |-> <<1, 0>>, user_id |-> 1, role |-> "superadmin", approval_status |-> "approved"],
         [id |-> <<2, 0>>, user_id |-> 2, role |-> "supplier", approval_status |-> "pending"],
         [id |-> <<3, 0>>, user_id |-> 3, role |-> "supplier", approval_status |-> "pending"],
         [id |-> <<4, 0>>, user_id |-> 4, role |-> "vendor", approval_status |-> "approved"]}
    /\ vendor_profiles =
        {[id |-> <<4, 0>>, user_id |-> 4,
          company_name |-> "Asha Stores", contact_number |-> "98450"]}
    /\ supplier_profiles = {LegacyProfile(2)}
    /\ suppliers = {}
    /\ products = {}
    /\ orders = {}
    /\ session = sessions
    /\ userRole = [c \in Clients |-> {r \in user_roles : r.user_id = session[c]}]
    /\ ordersList = [c \in Clients |-> {}]
    /\ productsList = [c \in Clients |-> {}]
    /\ pendingSuppliers = [c \in Clients |-> {}]
    /\ userDataFetch = [c \in Clients |-> {}]
    /\ proc = [c \in Clients |-> Idle]

\* browser session c1 is the superadmin's, c2 is signed out
InitApprovals == InitApprovalsWith([c1 |-> 1, c2 |-> NoUser])

NextApprovals == \E c \in {"c1"} : ApprovalsStep(c)

SpecApprovals == InitApprovals /\ [][NextApprovals]_vars

\* the superadmin at the Approvals page in both browser sessions
InitTwoAdmins == InitApprovalsWith([c1 |-> 1, c2 |-> 1])

\* the page's list is loaded or reloaded, an entry approved or rejected
NextTwoAdmins ==
    \E c \in Clients :
        \/ fetchPendingSuppliers(c)
        \/ FetchPendingProfiles(c)
        \/ ApprovalsApprove(c)
        \/ ApprovalsReject(c)

SpecTwoAdmins == InitTwoAdmins /\ [][NextTwoAdmins]_vars

\* the database owner rewrites the role of a superadmin's row (a statement run
\* outside the application, not subject to the policies); no session is touched
RevokeSuperadmin ==
    /\ \E r \in user_roles :
        /\ r.role = "superadmin"
        /\ user_roles' = (user_roles \ {r}) \cup {[r EXCEPT !.role = "vendor"]}
    /\ UNCHANGED <<users, session, supplier_profiles, vendor_profiles, suppliers,
                   shop, pages, proc>>

NextRevocation ==
    \/ \E c \in {"c1"} : ApprovalsStep(c)
    \/ RevokeSuperadmin

SpecRevocation == InitApprovals /\ [][NextRevocation]_vars

\* the roles account 3 may hold while party to none of the shop's first order
ThirdRoles ==
    {[id |-> <<3, 0>>, user_id |-> 3, role |-> r, approval_status |-> a] :
        r \in {"superadmin", "vendor"}, a \in {"approved"}}
      \cup {[id |-> <<3, 0>>, user_id |-> 3, role |-> "supplier", approval_status |-> "pending"]}

\* a party of the order (its vendor or its supplier) in one browser session,
\* account 3 in the other
InitBystander ==
    \E u \in {1, 2}, thirdRole \in ThirdRoles :
        InitShopWith([c1 |-> u, c2 |-> 3], thirdRole)

\* the party at its Products and Orders pages; account 3 loads its Orders page
\* and sends status updates for orders of the table
NextBystander ==
    \/ OrderStep("c1")
    \/ fetchOrders("c2")
    \/ handleUpdateOrderStatus("c2")
    \/ ApplyOrderUpdate("c2")
    \/ OrderUpdated("c2")

SpecBystander == InitBystander /\ [][NextBystander]_vars

\* ------------------------------------------------------------------ claims
\* the rows of table that belong to account u
RowsOf(table, u) == {r \in table : r.user_id = u}

\* C1: at most one RoleAssignment row per account, also when two signUp calls
\* for the same identity both pass the existing-role read before either inserts.
C1_OneRolePerAccount ==
    \A u \in Accounts : Cardinality(RowsOf(user_roles, u)) <= 1

\* both sessions' signUp calls, in flight together for the same user with
\* different roles, are past their user_roles insert, and one row exists
C1_Witness ==
    /\ proc["c1"].pc = "su_supplier_profile" /\ proc["c2"].pc = "su_vendor_profile"
    /\ proc["c1"].user = proc["c2"].user
    /\ Cardinality(RowsOf(user_roles, proc["c1"].user)) = 1

\* client c's approve or reject request is applied in this step
ApprovalStepOf(c) == proc[c] = Idle /\ proc'[c].pc = "toast"

\* C2: an approve/reject update issued by a caller without a superadmin
\* RoleAssignment leaves user_roles as it was, and a row's approval_status
\* changes only in an approve/reject step of a superadmin caller on that row.
C2_ApprovalChangesOnlyBySuperadmin ==
    [][/\ \A c \in Clients :
            ApprovalStepOf(c) /\ ~IsSuperadmin(session[c]) => user_roles' = user_roles
       /\ \A r \in user_roles, r2 \in user_roles' :
            r2.id = r.id /\ r2.approval_status # r.approval_status
            => \E c \in Clients : /\ ApprovalStepOf(c)
                                  /\ IsSuperadmin(session[c])
                                  /\ proc'[c].target = r.user_id]_vars

\* a signed-in supplier has asked to approve a pending row, which is still pending
C2_Witness ==
    \E c \in Clients, r \in user_roles :
        /\ proc[c].pc = "toast" /\ proc[c].op = "approve" /\ proc[c].target = r.user_id
        /\ session[c] # NoUser /\ ~IsSuperadmin(session[c])
        /\ \E own \in user_roles : own.user_id = session[c] /\ own.role = "supplier"
        /\ r.approval_status = "pending"

\* C3: an approve or reject by a caller who is not a superadmin ends in the
\* error outcome, never in 'Supplier Approved' / 'Supplier Rejected'.
C3_NonSuperadminGetsError ==
    \A c \in Clients :
        /\ proc[c].pc = "toast" /\ session[c] # NoUser /\ ~IsSuperadmin(session[c])
        /\ \E r \in user_roles : r.user_id = proc[c].target /\ r.role = "supplier"
        => ToastTitle(proc[c].op, proc[c].error) = "Error"

\* client c's signUp inserts its user_roles row in this step
RoleInsertStepOf(c) == proc[c].pc = "su_role" /\ proc'[c].pc # "su_role"

\* C4: signUp with the bootstrap-superadmin address creates the RoleAssignment
\* of its user with role superadmin and approval_status approved, whatever role
\* and profile were requested (the row is created unless the user has one).
C4_BootstrapEmailYieldsSuperadmin ==
    [][\A c \in Clients :
        RoleInsertStepOf(c) /\ proc[c].email = BootstrapEmail
        => /\ \A r \in user_roles' \ user_roles :
                /\ r.user_id = proc[c].user
                /\ r.role = "superadmin" /\ r.approval_status = "approved"
           /\ (\A r \in user_roles : r.user_id # proc[c].user)
                => \E r \in user_roles' \ user_roles : r.user_id = proc[c].user]_vars

\* a sign-up that asked for the supplier role with the bootstrap address has
\* inserted a superadmin / approved row
C4_Witness ==
    \E c \in Clients, r \in user_roles :
        /\ proc[c].pc = "su_return" /\ proc[c].error = "none"
        /\ proc[c].email = BootstrapEmail /\ proc[c].userData.role = "supplier"
        /\ r.user_id = proc[c].user /\ r.id = <<proc[c].user, 0>>
        /\ r.role = "superadmin" /\ r.approval_status = "approved"
        /\ Cardinality(user_roles) = 1

\* C5: for a non-bootstrap address the RoleAssignment signUp creates is pending
\* for a requested role of supplier and approved for a requested role of vendor.
C5_SupplierPendingVendorApproved ==
    [][\A c \in Clients :
        RoleInsertStepOf(c) /\ ~IsHardcodedSuperadmin(proc[c].email)
        => \A r \in user_roles' \ user_roles :
            /\ proc[c].userData.role = "supplier"
                 => r.role = "supplier" /\ r.approval_status = "pending"
            /\ proc[c].userData.role = "vendor"
                 => r.role = "vendor" /\ r.approval_status = "approved"]_vars

\* a supplier sign-up and a vendor sign-up have both inserted their rows
C5_Witness ==
    /\ \E r \in user_roles : r.role = "supplier" /\ r.approval_status = "pending"
    /\ \E r \in user_roles : r.role = "vendor" /\ r.approval_status = "approved"
    /\ \E c \in Clients :
        /\ proc[c].pc = "su_vendor_profile" /\ ~IsHardcodedSuperadmin(proc[c].email)
        /\ \E r \in user_roles : r.user_id = proc[c].user /\ r.role = "vendor"

\* C10: in every interleaving of ensureSupplierRecord calls, sign-up inserts and
\* the supplier_profiles trigger no account has two suppliers rows, and once an
\* ensureSupplierRecord call of an account that has a SupplierProfile has
\* returned, the account has exactly one.
C10_OneBusinessRecordPerAccount ==
    /\ \A u \in Accounts : Cardinality(RowsOf(suppliers, u)) <= 1
    /\ \A c \in Clients :
        proc[c].pc = "en_return" /\ RowsOf(supplier_profiles, proc[c].user) # {}
        => Cardinality(RowsOf(suppliers, proc[c].user)) = 1

\* both sessions ran ensureSupplierRecord for the same account together: both
\* read its profile, one inserted the row, the other's insert was refused
C10_Witness ==
    /\ proc["c1"].pc = "en_return" /\ proc["c2"].pc = "en_return"
    /\ proc["c1"].user = proc["c2"].user
    /\ proc["c1"].profileData # {} /\ proc["c2"].profileData # {}
    /\ proc["c1"].supplierData # {} /\ proc["c2"].supplierData = {}
    /\ Cardinality(RowsOf(suppliers, proc["c1"].user)) = 1

\* the edges of the order life cycle
OrderEdges == {<<"pending", "confirmed">>, <<"confirmed", "shipped">>,
               <<"shipped", "delivered">>, <<"pending", "cancelled">>}

\* client c's status update is applied to the database in this step
OrderUpdateAppliedBy(c) == proc[c].pc = "ord_update" /\ proc'[c].pc = "ord_toast"

\* C6: the status of an order changes only along pending -> confirmed,
\* confirmed -> shipped, shipped -> delivered and pending -> cancelled: a
\* request for any other change leaves the status as it is, whoever asks and
\* however the requests interleave.
C6_StatusChangesAlongEdges ==
    [][\A o \in orders, o2 \in orders' :
          o2.id = o.id /\ o2.status # o.status => <<o.status, o2.status>> \in OrderEdges]_vars

\* C7: a purchaser's cancel takes effect only if the stored status is pending
\* when it is applied; applied to an order that its supplier confirmed in the
\* meantime it leaves the order confirmed.
C7_CancelOnlyFromPending ==
    [][\A c \in Clients :
          OrderUpdateAppliedBy(c) /\ proc[c].op = "cancel"
              => \A o \in orders :
                    o.id = proc[c].order.id /\ o.status # "pending" => o \in orders']_vars

\* C8: an update is applied only while the stored status is still the one the
\* request was computed from; of two requests computed from the same observed
\* status the one applied second, finding another status stored, does not
\* change the row.
C8_CompareAndSwap ==
    [][\A c \in Clients :
          OrderUpdateAppliedBy(c)
              => \A o \in orders :
                    o.id = proc[c].order.id /\ o.status # proc[c].order.status
                        => o \in orders']_vars

\* C9: for the supplier who owns it, an order shown as pending, confirmed or
\* shipped can be advanced to the next status, so that delivered is reachable
\* and shipped is not a dead end.
C9_SupplierCanAdvance ==
    \A c \in Clients : \A order \in ordersList[c] :
        /\ RoleOf(c) = "supplier"
        /\ OwnsSupplier(session[c], order.supplier_id)
        /\ order.status \in {"pending", "confirmed", "shipped"}
        => canUpdateStatus(c, order) /\ getNextStatus(order.status) # order.status

\* what the model shows instead of C9: no order is ever delivered
NoOrderDelivered == \A o \in orders : o.status # "delivered"

\* C11: an ensureSupplierRecord call that found its account's SupplierProfile
\* returns that account's suppliers row, also when its own insert was refused
\* by the uniqueness constraint because another call inserted the row first.
C11_EnsureReturnsTheRecord ==
    \A c \in Clients :
        proc[c].pc = "en_return" /\ proc[c].profileData # {}
            => /\ proc[c].supplierData # {}
               /\ proc[c].supplierData \subseteq RowsOf(suppliers, proc[c].user)

\* no signUp call is between its first insert and its return
NoSignUpUnderWay ==
    \A c \in Clients :
        proc[c].pc \notin {"su_role", "su_supplier_profile", "su_supplier", "su_vendor_profile"}

\* C12: once signUp has returned, no account has a supplier or vendor
\* RoleAssignment without the matching supplier_profiles / vendor_profiles row,
\* also when the profile insert or the suppliers insert failed.
C12_NoRoleWithoutProfile ==
    NoSignUpUnderWay
        => \A r \in user_roles :
              /\ r.role = "supplier" => RowsOf(supplier_profiles, r.user_id) # {}
              /\ r.role = "vendor" => RowsOf(vendor_profiles, r.user_id) # {}

\* C13: a products row is inserted, updated or deleted only by the account
\* that owns the suppliers row it references; what any other account asks for,
\* an account without a suppliers row of its own included, leaves the products
\* table as it is.
C13_OnlyOwnerChangesProducts ==
    [][products' # products
         => \E c \in Clients :
               /\ proc'[c] # proc[c]
               /\ \A row \in (products \ products') \cup (products' \ products) :
                     OwnsSupplier(session[c], row.supplier_id)]_vars

\* a supplier account with no suppliers row has pressed Delete or saved an
\* edit on another supplier's product: the handler went through, the row is
\* as it was
C13_Witness ==
    \E c \in Clients :
        /\ ~\E sup \in suppliers : sup.user_id = session[c]
        /\ proc[c].pc = "fp_all"
        /\ proc[c].toast \in {"Product updated successfully!", "Product deleted successfully!"}
        /\ products = {[id |-> <<0, 1>>, supplier_id |-> <<2, 0>>,
                        unit_price |-> 100, status |-> "active", sku |-> "TEA-7"]}

\* the account of session c was a superadmin when the session loaded its
\* role and has no superadmin row now; the session is as it was
Revoked(c) ==
    /\ session[c] # NoUser
    /\ ~\E r \in user_roles : r.user_id = session[c] /\ r.role = "superadmin"
    /\ \E r \in userRole[c] : r.user_id = session[c] /\ r.role = "superadmin"

\* C15: the superadmin privilege is that of the current user_roles row at each
\* request: once the account's row no longer has role superadmin, the next
\* approve or reject of its session changes nothing and its next read of
\* user_roles and supplier_profiles yields no other account's rows, the
\* session and its loaded role being untouched.
C15_PrivilegeFollowsCurrentRole ==
    [][\A c \in Clients :
          Revoked(c) /\ proc'[c] # proc[c]
          => /\ proc'[c].pc = "ap_toast" => user_roles' = user_roles
             /\ proc'[c].pc = "ap_profiles"
                  => \A r \in proc'[c].userRoles : r.user_id = session[c]
             /\ proc[c].pc = "ap_profiles"
                  => \A e \in pendingSuppliers'[c] :
                        e.user_id # session[c] => e.business_name = ""]_vars

\* after the revocation the session, still showing the page, has pressed
\* Approve on a pending supplier of its list, whose row is still pending
C15_Witness ==
    \E c \in Clients, r \in user_roles :
        /\ Revoked(c)
        /\ proc[c].pc = "ap_toast" /\ proc[c].op = "approve"
        /\ r.user_id = proc[c].target /\ r.approval_status = "pending"

\* C16: a read that policy denies is told apart from an empty result: when
\* the first query of fetchPendingSuppliers comes back with no rows and no
\* error, no row it asked for has been withheld from the caller by the select
\* policies on user_roles.
C16_DeniedReadIsNotAnEmptyResult ==
    [][\A c \in Clients :
          /\ proc'[c] # proc[c] /\ proc'[c].pc = "ap_profiles"
          /\ proc'[c].userRoles = {}
          => \A r \in PendingSupplierRoles : UserRolesSelectPolicy(session[c], r)]_vars

\* C17: an order row created by placing an order has status pending and
\* total_amount = quantity * unit_price, its unit_price being the price of the
\* product as the purchaser's page showed it.
C17_OrderAmountAtCreation ==
    [][\A o \in orders' :
          (\A old \in orders : old.id # o.id)
              => /\ o.status = "pending"
                 /\ o.total_amount = o.quantity * o.unit_price
                 /\ \E c \in Clients : \E product \in productsList[c] :
                       /\ session[c] = o.user_id
                       /\ product.id = o.product_id
                       /\ product.unit_price = o.unit_price]_vars

\* the vendor has ordered at the price its page showed after the supplier had
\* changed the stored price
C17_Witness ==
    \E o \in orders, pr \in products, c \in Clients :
        /\ o.id = <<1, 1>> /\ pr.id = o.product_id
        /\ session[c] = o.user_id
        /\ \E shown \in productsList[c] : shown.id = pr.id /\ shown.unit_price = o.unit_price
        /\ pr.unit_price # o.unit_price
        /\ o.total_amount = o.unit_price /\ o.status = "pending"

\* C18: no two products rows have the same SKU, whether typed, generated at
\* insert time or written by the sample-data seeding, two clients seeding at
\* the same time included.
C18_UniqueSku ==
    \A p1 \in products, p2 \in products : p1.id # p2.id => p1.sku # p2.sku

\* the account is the purchaser of the order or owns its supplier
PartyTo(uid, o) == uid = o.user_id \/ OwnsSupplier(uid, o.supplier_id)

\* the step is one of client c
StepOf(c) == proc'[c] # proc[c] \/ ordersList'[c] # ordersList[c]

C20_RoleRowsOnlyChangeStatus ==
    [][\A r \in user_roles :
          \E r2 \in user_roles' :
              /\ r2.id = r.id /\ r2.user_id = r.user_id /\ r2.role = r.role
              /\ r2.approval_status # r.approval_status
                   => \E c \in Clients : ApprovalStepOf(c)]_vars

\* a superadmin's approve has changed a supplier's row from pending to approved
\* while the superadmin's own row is as sign-up wrote it
C20_Witness ==
    \E c \in Clients, r \in user_roles, own \in user_roles :
        /\ proc[c].pc = "toast" /\ proc[c].op = "approve" /\ proc[c].target = r.user_id
        /\ own.user_id = session[c] /\ own.role = "superadmin"
        /\ r.role = "supplier" /\ r.approval_status = "approved"

\* C21: a suppliers row, when it is created for an account (by
\* ensureSupplierRecord, by signUp or by the supplier_profiles trigger), has
\* the values of the account's profile at that time: name = business_name,
\* contact_email = contact_number, address = business_address, status active.
C21_BusinessRecordCopiesProfile ==
    [][\A row \in suppliers' \ suppliers :
          \E profile \in supplier_profiles' :
              /\ profile.user_id = row.user_id
              /\ row.name = profile.business_name
              /\ row.contact_email = profile.contact_number
              /\ row.address = profile.business_address
              /\ row.status = "active"]_vars

\* C22: an approve or reject changes approval_status only of a row whose
\* stored status is pending: of two superadmin sessions acting on the same
\* pending supplier, one from a stale list, the second leaves the status the
\* first has set, so no row goes from approved to rejected or back.
C22_StatusChangesOnlyFromPending ==
    [][\A r \in user_roles, r2 \in user_roles' :
          r2.id = r.id /\ r2.approval_status # r.approval_status
              => r.approval_status = "pending"]_vars

\* client c's fetchProducts stores its list in this step
SetProductsStepOf(c) ==
    /\ proc[c].pc \in {"fp_set", "en_return"} /\ proc[c].caller.fn = "fetchProducts"
    /\ proc'[c] = Idle

\* the supplier of the product has an approved user_roles row
SupplierApproved(pr) ==
    \E sup \in suppliers, r \in user_roles :
        /\ sup.id = pr.supplier_id /\ r.user_id = sup.user_id
        /\ r.approval_status = "approved"

\* C23: the list fetchProducts stores for a vendor holds only products with
\* status active whose supplier's approval_status is approved.
C23_VendorSeesApprovedActiveProducts ==
    [][\A c \in Clients :
          SetProductsStepOf(c) /\ RoleOf(c) = "vendor"
              => \A pr \in productsList'[c] :
                    pr.status = "active" /\ SupplierApproved(pr)]_vars

\* C24: the list fetchProducts stores for a supplier holds only products whose
\* supplier_id is the caller's own suppliers row and, with a status filter
\* other than 'all' selected, only products of that status.
C24_SupplierSeesOwnProducts ==
    [][\A c \in Clients :
          SetProductsStepOf(c) /\ RoleOf(c) = "supplier"
              => \A pr \in productsList'[c] :
                    /\ OwnsSupplier(session[c], pr.supplier_id)
                    /\ proc[c].caller.statusFilter # "all"
                         => pr.status = proc[c].caller.statusFilter]_vars

\* C28: a product insert succeeds only for a supplier whose user_roles row is
\* approved at the time of the insert; a pending or rejected supplier adds no
\* product.
C28_OnlyApprovedSuppliersAddProducts ==
    [][\A row \in products' \ products :
          \E sup \in suppliers, r \in user_roles :
              /\ sup.id = row.supplier_id /\ r.user_id = sup.user_id
              /\ r.role = "supplier" /\ r.approval_status = "approved"]_vars

\* client c calls signUp in this step: its check for an existing role is made
SignUpCallOf(c) == proc[c] = Idle /\ proc'[c].pc \in {"su_auth", "su_return"}

\* C25: when the account that is signing up already has a user_roles row,
\* signUp returns the error 'User role already exists.' from its first check:
\* it goes on to no authentication sign-up and to no insert.
C25_ExistingRoleStopsSignUp ==
    [][\A c \in Clients :
          SignUpCallOf(c) /\ RowsOf(user_roles, session[c]) # {}
              => /\ proc'[c].pc = "su_return"
                 /\ proc'[c].error = "User role already exists."]_vars

\* C26: a signUp that returns without an error leaves its new account with a
\* user_roles row: every account there is, each created by a signUp that the
\* authentication service accepted, has one once no signUp is between its
\* inserts, also when no session was opened right after the sign-up.
C26_SignedUpAccountHasRole ==
    NoSignUpUnderWay => \A u \in users : RowsOf(user_roles, u) # {}

\* C27: an account becomes superadmin through the bootstrap address only: a
\* signUp with any other address, whatever role it asks for, inserts no
\* user_roles row with role superadmin.
C27_SuperadminOnlyByBootstrapEmail ==
    [][\A c \in Clients :
          RoleInsertStepOf(c) /\ ~IsHardcodedSuperadmin(proc[c].email)
              => \A r \in user_roles' \ user_roles : r.role # "superadmin"]_vars


\* C29: in every reachable state, a browser session that is signed out (signOut
\* has completed, or the listener has reported a null session, and nobody has
\* signed in since) has a null userRole in its hook, also when a fetchUserData
\* call that started before the sign-out gets its answer afterwards.
C29_SignedOutHookHoldsNoRole ==
    \A c \in Clients : session[c] = NoUser => userRole[c] = {}


\* C30: in every reachable state every order refers to a stored product and its
\* supplier_id is that product's supplier_id: placing orders and editing or
\* deleting products never leave an order attributed to another supplier.
C30_OrderSupplierIsProductOwner ==
    \A o \in orders : \E pr \in products :
        pr.id = o.product_id /\ pr.supplier_id = o.supplier_id

\* the vendor has ordered from both suppliers and one of the ordered products
\* was edited by its owner
C30_Witness ==
    /\ \E o1 \in orders, o2 \in orders : o1.supplier_id # o2.supplier_id
    /\ \E o \in orders, pr \in products :
          pr.id = o.product_id /\ pr.unit_price # o.unit_price

====
